---- MODULE Spec2Model ----
(***************************************************************************)
(* Google Ads copy generator: CopyGenerator (generator.py), the truncation *)
(* helper (utils.py) and the scrape-then-generate flow of demo.py.         *)
(* Python strings are TLA+ strings; the string operations the code uses    *)
(* (slicing, rsplit, lower, strip, split, "in", startswith) are computed   *)
(* character by character.                                                 *)
(***************************************************************************)
EXTENDS Integers, Sequences, FiniteSets, TLC

VARIABLES
    tr_pc, tr_text, tr_limit, tr_out, tr_again,   \* truncate_for_google_ads applied to one input
    va_pc, va_in, va_out,                         \* validate_ads applied to one list
    pc,                  \* where the scrape-then-generate flow stands
    path,                \* the generation states the generate_ads call went through, in order
    api_key,             \* CopyGenerator.api_key: <<>> for None, <<k>> for the string k
    content,             \* what scrape_url returned
    args,                \* the arguments of generate_ads
    backend_calls,       \* requests made to openai.ChatCompletion.create
    response_text,       \* the text the backend answered
    t_args,              \* the arguments of the _generate_with_templates call
    ads,                 \* _generate_with_templates: the list built so far
    used_combinations,   \* _generate_with_templates: the triples drawn so far
    attempts,            \* _generate_with_templates: the retry counter of the current slot
    combination,         \* _generate_with_templates: the triple drawn last
    result,              \* the list generate_ads returned
    ct_pc, ct_text, ct_limit, ct_out,             \* clean_text applied to one input
    kw_pc, kw_text, kw_max, kw_out,               \* extract_keywords applied to one input
    pa_pc, pa_text, pa_out,                       \* the parser's loop applied to one response
    sc_pc,               \* where the scrape_url call stands
    sc_url,              \* the url it was called with
    sc_gets,             \* HTTP GET requests sent to the network
    sc_response,         \* the response session.get returned
    sc_raised,           \* the exception raised inside scrape_url
    sc_out,              \* what scrape_url returned
    tw_pc,               \* where a second _generate_with_templates call stands
    tw_args,             \* its arguments
    tw_ads,              \* its list ads
    tw_used,             \* its set used_combinations
    tw_attempts,         \* its retry counter
    tw_result            \* the list it returned

tr_vars == <<tr_pc, tr_text, tr_limit, tr_out, tr_again>>
va_vars == <<va_pc, va_in, va_out>>
call_vars == <<api_key, content, args>>
tmpl_vars == <<t_args, ads, used_combinations, attempts, combination>>
gen_vars == <<pc, path, call_vars, backend_calls, response_text, tmpl_vars, result>>
ct_vars == <<ct_pc, ct_text, ct_limit, ct_out>>
kw_vars == <<kw_pc, kw_text, kw_max, kw_out>>
pa_vars == <<pa_pc, pa_text, pa_out>>
sc_vars == <<sc_pc, sc_url, sc_gets, sc_response, sc_raised, sc_out>>
tw_vars == <<tw_pc, tw_args, tw_ads, tw_used, tw_attempts, tw_result>>
util_vars == <<ct_vars, kw_vars, pa_vars, sc_vars, tw_vars>>
pure_vars == <<tr_vars, va_vars, util_vars>>
vars == <<tr_vars, va_vars, gen_vars, util_vars>>

(***************************************************************************)
(* Bounds of the model.                                                    *)
(***************************************************************************)
MaxTextLen == 7      \* longest generated text handed to truncate_for_google_ads
MaxLimit == 6        \* largest generated max_length (the real limits 30 and 90 are added)
MaxVariants == 2     \* largest num_variants requested
MaxBlocks == 2       \* blocks of lines in a backend response

(***************************************************************************)
(* Python string operations.                                               *)
(***************************************************************************)
Min(a, b) == IF a <= b THEN a ELSE b
Max(a, b) == IF a >= b THEN a ELSE b

\* s[i] for a 1-based index
CharAt(s, i) == SubSeq(s, i, i)

\* s[:n] for n >= 0
Prefix(s, n) == SubSeq(s, 1, Min(n, Len(s)))

\* s[n:] for n >= 0 (0-based start)
Suffix(s, n) == SubSeq(s, n + 1, Len(s))

\* positions (1-based) at which sub occurs in s
Occurrences(sub, s) ==
    { i \in 1..(Len(s) - Len(sub) + 1) : SubSeq(s, i, i + Len(sub) - 1) = sub }

\* sub in s
Contains(sub, s) == Len(sub) = 0 \/ Occurrences(sub, s) # {}

\* s.startswith(p)
StartsWith(s, p) == Len(p) <= Len(s) /\ SubSeq(s, 1, Len(p)) = p

SetMax(S) == CHOOSE x \in S : \A y \in S : y <= x
SetMin(S) == CHOOSE x \in S : \A y \in S : x <= y

\* s.rsplit(sep, 1)[0] for a one-character sep: everything before the last
\* sep, or all of s when sep does not occur
RSplitFirst(s, sep) ==
    LET occ == Occurrences(sep, s)
    IN  IF occ = {} THEN s ELSE SubSeq(s, 1, SetMax(occ) - 1)

\* s.split(sep, 1)[1] for a one-character sep that occurs in s
SplitSecond(s, sep) == SubSeq(s, SetMin(Occurrences(sep, s)) + 1, Len(s))

\* the lower-case letter of every upper-case letter
LowerOf ==
    [c \in {"A", "B", "C", "D", "E", "F", "G", "H", "I", "J", "K", "L", "M",
            "N", "O", "P", "Q", "R", "S", "T", "U", "V", "W", "X", "Y", "Z"} |->
        CASE c = "A" -> "a" [] c = "B" -> "b" [] c = "C" -> "c" [] c = "D" -> "d"
          [] c = "E" -> "e" [] c = "F" -> "f" [] c = "G" -> "g" [] c = "H" -> "h"
          [] c = "I" -> "i" [] c = "J" -> "j" [] c = "K" -> "k" [] c = "L" -> "l"
          [] c = "M" -> "m" [] c = "N" -> "n" [] c = "O" -> "o" [] c = "P" -> "p"
          [] c = "Q" -> "q" [] c = "R" -> "r" [] c = "S" -> "s" [] c = "T" -> "t"
          [] c = "U" -> "u" [] c = "V" -> "v" [] c = "W" -> "w" [] c = "X" -> "x"
          [] c = "Y" -> "y" [] c = "Z" -> "z"]

LowerChar(c) == IF c \in DOMAIN LowerOf THEN LowerOf[c] ELSE c

RECURSIVE Lower(_)
\* s.lower(), character by character
Lower(s) ==
    IF Len(s) = 0 THEN ""
    ELSE IF Len(s) = 1 THEN LowerChar(s)
    ELSE LET half == Len(s) \div 2
         IN  Lower(SubSeq(s, 1, half)) \o Lower(SubSeq(s, half + 1, Len(s)))

IsSpace(c) == c \in {" ", "\t", "\n", "\r"}

\* s.strip()
Strip(s) ==
    LET keep == { i \in 1..Len(s) : ~IsSpace(CharAt(s, i)) }
    IN  IF keep = {} THEN "" ELSE SubSeq(s, SetMin(keep), SetMax(keep))

RECURSIVE Sorted(_)
\* the members of a set of numbers in increasing order
Sorted(S) == IF S = {} THEN <<>> ELSE <<SetMin(S)>> \o Sorted(S \ {SetMin(S)})

\* s.split(sep) for a one-character sep: the pieces between the separators
Split(s, sep) ==
    LET at == Sorted(Occurrences(sep, s))
        from(k) == IF k = 1 THEN 1 ELSE at[k - 1] + 1
        upto(k) == IF k = Len(at) + 1 THEN Len(s) ELSE at[k] - 1
    IN  [k \in 1..(Len(at) + 1) |-> SubSeq(s, from(k), upto(k))]

(***************************************************************************)
(* utils.truncate_for_google_ads                                           *)
(***************************************************************************)
\* a truncation that appends the ellipsis to the word-boundary cut
TruncateAppendEllipsis(text, max_length) ==
    IF Len(text) <= max_length THEN text
    ELSE RSplitFirst(Prefix(text, max_length), " ") \o "..."

\* a truncation without the early return for texts within the limit
TruncateNoEarlyReturn(text, max_length) ==
    RSplitFirst(Prefix(text, max_length), " ")

truncate_for_google_ads(text, max_length) ==
    IF Len(text) <= max_length THEN text
    ELSE LET truncated == RSplitFirst(Prefix(text, max_length), " ")
         IN  IF Len(truncated) > max_length
             THEN Prefix(text, max_length - 3) \o "..."
             ELSE truncated

(***************************************************************************)
(* Inputs of the truncation: every text over a three-letter alphabet up to *)
(* MaxTextLen, and the texts of the specification's scenarios.             *)
(***************************************************************************)
Alphabet == {"a", "b", " "}

RECURSIVE Texts(_)
Texts(n) ==
    IF n = 0 THEN {""}
    ELSE LET shorter == Texts(n - 1)
         IN  shorter \cup { s \o c : s \in { t \in shorter : Len(t) = n - 1 }, c \in Alphabet }

ScenarioTexts ==
    { "Best Home Security Systems For Budget Buyers",
      "Supercalifragilisticexpialidocious",
      "Best affordable home insurance quotes Deals" }

HEADLINE_LIMIT == 30
DESCRIPTION_LIMIT == 90

TruncInit ==
    /\ tr_pc = "call"
    /\ tr_text \in Texts(MaxTextLen) \cup ScenarioTexts
    /\ tr_limit \in 0..MaxLimit \cup {HEADLINE_LIMIT, DESCRIPTION_LIMIT}
    /\ tr_out = ""
    /\ tr_again = ""

\* truncate_for_google_ads(text, max_length)
Truncate ==
    /\ tr_pc = "call"
    /\ tr_out' = truncate_for_google_ads(tr_text, tr_limit)
    /\ tr_pc' = "truncated"
    /\ UNCHANGED <<tr_text, tr_limit, tr_again, va_vars, gen_vars, util_vars>>

\* truncate_for_google_ads applied to its own result
TruncateAgain ==
    /\ tr_pc = "truncated"
    /\ tr_again' = truncate_for_google_ads(tr_out, tr_limit)
    /\ tr_pc' = "done"
    /\ UNCHANGED <<tr_text, tr_limit, tr_out, va_vars, gen_vars, util_vars>>

TruncIdle ==
    /\ tr_pc = "idle" /\ tr_text = "" /\ tr_limit = 0 /\ tr_out = "" /\ tr_again = ""

(***************************************************************************)
(* CopyGenerator.validate_ads.  An ad is a Python dict: a function from    *)
(* the keys it holds to strings.                                           *)
(***************************************************************************)
RECURSIVE Rep(_, _)
\* c * n
Rep(c, n) == IF n <= 0 THEN "" ELSE c \o Rep(c, n - 1)

Ad(h1, h2, d) == [headline1 |-> h1, headline2 |-> h2, description |-> d]

HasAllFields(ad) ==
    /\ "headline1" \in DOMAIN ad
    /\ "headline2" \in DOMAIN ad
    /\ "description" \in DOMAIN ad

WithinLimits(ad) ==
    /\ Len(ad.headline1) <= HEADLINE_LIMIT
    /\ Len(ad.headline2) <= HEADLINE_LIMIT
    /\ Len(ad.description) <= DESCRIPTION_LIMIT

\* the test of the loop body of validate_ads: the fields exist and are within the limits
Accepted(ad) == HasAllFields(ad) /\ WithinLimits(ad)

validate_ads(ad_list) == SelectSeq(ad_list, Accepted)

AdInputs ==
    { Ad("Best Home Deals", "Free Shipping", "Get the best home deals. Shop now!"),
      Ad(Rep("h", HEADLINE_LIMIT), Rep("g", HEADLINE_LIMIT), Rep("d", DESCRIPTION_LIMIT)),
      Ad(Rep("h", HEADLINE_LIMIT + 1), "Best Prices", "Compare prices & save big today!"),
      Ad("Top Home Options", "Best Prices", Rep("d", DESCRIPTION_LIMIT + 1)),
      Ad("", "Fast Delivery", "Order today!"),
      Ad("Save on Home", "Limited Time", ""),
      [headline1 |-> "Find Your Home", headline2 |-> "Trusted Source"],
      [headline2 |-> "Expert Support", description |-> "Limited time offer!"] }

MaxAds == 2          \* longest list handed to validate_ads

RECURSIVE AdLists(_)
AdLists(n) ==
    IF n = 0 THEN {<<>>}
    ELSE LET shorter == AdLists(n - 1)
         IN  shorter \cup { Append(l, ad) : l \in { k \in shorter : Len(k) = n - 1 }, ad \in AdInputs }

ValidateInit ==
    /\ va_pc = "call"
    /\ va_in \in AdLists(MaxAds)
    /\ va_out = <<>>

\* validate_ads(ads)
Validate ==
    /\ va_pc = "call"
    /\ va_out' = validate_ads(va_in)
    /\ va_pc' = "done"
    /\ UNCHANGED <<va_in, tr_vars, gen_vars, util_vars>>

ValidateIdle ==
    /\ va_pc = "idle" /\ va_in = <<>> /\ va_out = <<>>

(***************************************************************************)
(* CopyGenerator._parse_openai_response                                    *)
(***************************************************************************)
EmptyDict == [k \in {} |-> ""]

\* d[k] = v
Put(d, k, v) == [x \in DOMAIN d \cup {k} |-> IF x = k THEN v ELSE d[x]]

\* the text after the first colon of a field line, stripped and truncated
FieldValue(line, limit) == truncate_for_google_ads(Strip(SplitSecond(line, ":")), limit)

\* one iteration of the loop over the lines; st holds ads, current_ad, ad_count
ParseLine(st, raw) ==
    LET line == Strip(raw)
        low == Lower(line)
    IN  IF line = "" THEN st
        ELSE IF StartsWith(low, "ad ") /\ Contains(":", line)
        THEN IF DOMAIN st.current_ad # {} /\ Cardinality(DOMAIN st.current_ad) = 3
             THEN [ads |-> Append(st.ads, st.current_ad),
                   current_ad |-> EmptyDict,
                   ad_count |-> st.ad_count + 1]
             ELSE [st EXCEPT !.ad_count = @ + 1]
        ELSE IF Contains("headline 1:", low)
        THEN [st EXCEPT !.current_ad = Put(@, "headline1", FieldValue(line, HEADLINE_LIMIT))]
        ELSE IF Contains("headline 2:", low)
        THEN [st EXCEPT !.current_ad = Put(@, "headline2", FieldValue(line, HEADLINE_LIMIT))]
        ELSE IF Contains("description:", low)
        THEN [st EXCEPT !.current_ad = Put(@, "description", FieldValue(line, DESCRIPTION_LIMIT))]
        ELSE st

RECURSIVE ParseLines(_, _, _)
ParseLines(st, lines, k) ==
    IF k > Len(lines) THEN st ELSE ParseLines(ParseLine(st, lines[k]), lines, k + 1)

\* the list ads of _parse_openai_response when its loop and the last-ad test are over
ParsedAds(text) ==
    LET st == ParseLines([ads |-> <<>>, current_ad |-> EmptyDict, ad_count |-> 0],
                         Split(text, "\n"), 1)
    IN  IF DOMAIN st.current_ad # {} /\ Cardinality(DOMAIN st.current_ad) = 3
        THEN Append(st.ads, st.current_ad)
        ELSE st.ads

\* a parser that returns whatever it parsed, however few
ParseOutcomePartial(parsed, expected_variants) ==
    [fallback |-> FALSE, ads |-> SubSeq(parsed, 1, Min(Len(parsed), expected_variants))]

\* a parser that also falls back when it parsed exactly as many as expected
ParseOutcomeStrict(parsed, expected_variants) ==
    IF Len(parsed) <= expected_variants
    THEN [fallback |-> TRUE, ads |-> <<>>]
    ELSE [fallback |-> FALSE, ads |-> SubSeq(parsed, 1, expected_variants)]

\* the end of _parse_openai_response: the template fallback or the first records
ParseOutcome(parsed, expected_variants) ==
    IF Len(parsed) < expected_variants
    THEN [fallback |-> TRUE, ads |-> <<>>]
    ELSE [fallback |-> FALSE, ads |-> SubSeq(parsed, 1, expected_variants)]

(***************************************************************************)
(* CopyGenerator._generate_with_templates                                  *)
(***************************************************************************)
MAX_ATTEMPTS == 20

headline_templates(keyword) ==
    << "Best " \o keyword \o " Deals",
       "Top " \o keyword \o " Options",
       "Quality " \o keyword \o " Here",
       "Find Your " \o keyword,
       "Premium " \o keyword \o " Now",
       "Save on " \o keyword,
       "Expert " \o keyword \o " Guide",
       "Trusted " \o keyword \o " Source" >>

secondary_headlines ==
    << "Free Shipping", "Best Prices", "Expert Support", "Quality Guaranteed",
       "Fast Delivery", "Save Big Today", "Limited Time", "Trusted Source" >>

description_templates(keyword) ==
    << "Get the best " \o keyword \o " deals. Fast shipping & expert support. Shop now!",
       "Find quality " \o keyword \o " options. Compare prices & save big today!",
       "Premium " \o keyword \o " selection. Free shipping & 30-day returns. Buy now!",
       "Expert " \o keyword \o " advice. Best prices guaranteed. Limited time offer!",
       "Trusted " \o keyword \o " source. Fast delivery & customer satisfaction. Order today!" >>

\* the values random.choice(pool) returns in the model: the first and the last
\* entry of the pool
Choice(pool) == { pool[1], pool[Len(pool)] }

\* the triples one iteration of the while loop can draw
Combinations(keyword) ==
    Choice(headline_templates(keyword)) \X Choice(secondary_headlines)
        \X Choice(description_templates(keyword))

\* the keyword test after the while loop
EnsureKeyword(keyword, headline1) ==
    IF ~Contains(Lower(keyword), Lower(headline1))
    THEN "Best " \o keyword \o " Deals"
    ELSE headline1

\* a record appended with its first headline left as drawn
TemplateAdUntruncated(keyword, c) ==
    Ad(EnsureKeyword(keyword, c[1]),
       truncate_for_google_ads(c[2], HEADLINE_LIMIT),
       truncate_for_google_ads(c[3], DESCRIPTION_LIMIT))

\* the record appended for a slot whose last drawn triple is c
TemplateAd(keyword, c) ==
    Ad(truncate_for_google_ads(EnsureKeyword(keyword, c[1]), HEADLINE_LIMIT),
       truncate_for_google_ads(c[2], HEADLINE_LIMIT),
       truncate_for_google_ads(c[3], DESCRIPTION_LIMIT))

(***************************************************************************)
(* The inputs: credentials, scrape results, arguments, backend responses.  *)
(***************************************************************************)
None == <<>>
Some(v) == <<v>>

\* bool(self.api_key)
Truthy(k) == k # None /\ k[1] # ""

ApiKeys == { None, Some(""), Some("sk-test") }

ContentSummaries == { "", "Title: Home Security\nContent: Test content" }

ScrapeErrors == { "Failed to scrape URL: connection refused" }

ScrapeResults ==
    { [success |-> TRUE, summary |-> x] : x \in ContentSummaries }
        \cup { [success |-> FALSE, error |-> e] : e \in ScrapeErrors }

Personas == { "budget-conscious first-time homeowner" }

Keywords ==
    { "", "Home Insurance", "affordable home insurance quotes",
      "Supercalifragilisticexpialidocious" }

Arguments(s, p, k, n) ==
    [content_summary |-> s, persona |-> p, keyword |-> k, num_variants |-> n]

NoArguments == Arguments("", "", "", 0)

ResponseBlocks ==
    { "Here are your ads:\n\nAd 1:\nHeadline 1: Affordable Home Insurance\nHeadline 2: Get a Free Quote Today\n"
          \o "Description: Protect your first home for less. Compare plans & save now!\n\n",
      "Ad 2:\n  Headline 1: Home Insurance for First-Time Homeowners\n  Headline 2: Save Big\n"
          \o "  Description: Budget-friendly cover for new homeowners. Switch today and start saving on your premium every month!\n",
      "Ad 3:\nHeadline 1: Insure Your Home\nHeadline 2: Low Monthly Rates\n",
      "Ad 4:\nHeadline 1:\nHeadline 2: Trusted Cover\nDescription: Call us today.\n",
      "headline 1: Cover From Day One\nheadline 2: No Hidden Fees\ndescription: Simple home cover. Apply online!\n" }

RECURSIVE Responses(_)
\* the texts of at most n blocks
Responses(n) ==
    IF n = 0 THEN {""}
    ELSE {""} \cup { b \o r : b \in ResponseBlocks, r \in Responses(n - 1) }

(***************************************************************************)
(* The flow of demo.py: scrape_url, then generate_ads on success.          *)
(***************************************************************************)
GenInit ==
    /\ pc = "Idle"
    /\ path = <<>>
    /\ api_key \in ApiKeys
    /\ content = [success |-> FALSE, error |-> ""]
    /\ args = NoArguments
    /\ backend_calls = 0
    /\ response_text = ""
    /\ t_args = NoArguments
    /\ ads = <<>>
    /\ used_combinations = {}
    /\ attempts = 0
    /\ combination = <<>>
    /\ result = <<>>

GenIdle ==
    /\ pc = "Off"
    /\ path = <<>>
    /\ api_key = None
    /\ content = [success |-> FALSE, error |-> ""]
    /\ args = NoArguments
    /\ backend_calls = 0
    /\ response_text = ""
    /\ t_args = NoArguments
    /\ ads = <<>>
    /\ used_combinations = {}
    /\ attempts = 0
    /\ combination = <<>>
    /\ result = <<>>

\* content = scraper.scrape_url(target_url)
ScrapeUrl ==
    /\ pc = "Idle"
    /\ content' \in ScrapeResults
    /\ pc' = "Scraped"
    /\ UNCHANGED <<path, api_key, args, backend_calls, response_text, tmpl_vars, result>>
    /\ UNCHANGED pure_vars

\* demo.py, the else branch of content['success']: the error is printed and
\* nothing is generated
ScrapeFailed ==
    /\ pc = "Scraped"
    /\ ~content.success
    /\ pc' = "ScrapeFailed"
    /\ UNCHANGED <<path, call_vars, backend_calls, response_text, tmpl_vars, result>>
    /\ UNCHANGED pure_vars

\* ads = generator.generate_ads(content['summary'], persona, keyword, num_variants)
CallGenerateAds ==
    /\ pc = "Scraped"
    /\ content.success
    /\ \E p \in Personas, k \in Keywords, n \in 0..MaxVariants :
           args' = Arguments(content.summary, p, k, n)
    /\ pc' = "AwaitingGeneration"
    /\ path' = <<"AwaitingGeneration">>
    /\ UNCHANGED <<api_key, content, backend_calls, response_text, tmpl_vars, result>>
    /\ UNCHANGED pure_vars

\* the start of _generate_with_templates(a.content_summary, a.persona, a.keyword, a.num_variants)
EnterTemplates(a) ==
    /\ t_args' = a
    /\ ads' = <<>>
    /\ used_combinations' = {}
    /\ attempts' = 0
    /\ combination' = <<>>
    /\ pc' = "TemplateAttempt"
    /\ path' = Append(path, "TemplateAttempt")

\* generate_ads: the test of self.api_key
GenerateAds ==
    /\ pc = "AwaitingGeneration"
    /\ IF Truthy(api_key)
       THEN /\ pc' = "GenerativeAttempt"
            /\ path' = Append(path, "GenerativeAttempt")
            /\ UNCHANGED tmpl_vars
       ELSE EnterTemplates(args)
    /\ UNCHANGED <<call_vars, backend_calls, response_text, result>>
    /\ UNCHANGED pure_vars

\* a handler that lets the exception of the backend reach the caller
OpenAIFailsUncaught ==
    /\ pc = "GenerativeAttempt"
    /\ backend_calls' = backend_calls + 1
    /\ pc' = "Raised"
    /\ UNCHANGED <<path, call_vars, response_text, tmpl_vars, result>>
    /\ UNCHANGED pure_vars

\* _generate_with_openai: the request raises, the except clause calls the templates
OpenAIFails ==
    /\ pc = "GenerativeAttempt"
    /\ backend_calls' = backend_calls + 1
    /\ EnterTemplates(args)
    /\ UNCHANGED <<call_vars, response_text, result>>
    /\ UNCHANGED pure_vars

\* _generate_with_openai: the request returns a text
OpenAIResponds ==
    /\ pc = "GenerativeAttempt"
    /\ backend_calls' = backend_calls + 1
    /\ response_text' \in Responses(MaxBlocks)
    /\ pc' = "Parsing"
    /\ UNCHANGED <<path, call_vars, tmpl_vars, result>>
    /\ UNCHANGED pure_vars

\* _parse_openai_response(ads_text, num_variants)
ParseResponse ==
    /\ pc = "Parsing"
    /\ LET out == ParseOutcome(ParsedAds(response_text), args.num_variants)
       IN  IF out.fallback
           THEN /\ EnterTemplates(Arguments("", "", "", args.num_variants))
                /\ response_text' = ""
                /\ UNCHANGED result
           ELSE /\ result' = out.ads
                /\ pc' = "Done"
                /\ path' = Append(path, "Done")
                /\ UNCHANGED <<response_text, tmpl_vars>>
    /\ UNCHANGED <<call_vars, backend_calls>>
    /\ UNCHANGED pure_vars

\* content_summary.split(): the runs of characters that are not whitespace
SplitWords(s) ==
    LET starts == Sorted({ i \in 1..Len(s) :
                             /\ ~IsSpace(CharAt(s, i))
                             /\ (i = 1 \/ IsSpace(CharAt(s, i - 1))) })
        ends == Sorted({ i \in 1..Len(s) :
                           /\ ~IsSpace(CharAt(s, i))
                           /\ (i = Len(s) \/ IsSpace(CharAt(s, i + 1))) })
    IN  [k \in 1..Len(starts) |-> SubSeq(s, starts[k], ends[k])]

LongerThanThree(word) == Len(word) > 3

\* the list value_words the call builds from content_summary before the pools
value_words(content_summary) ==
    LET content_words == SplitWords(Lower(content_summary))
        long == SelectSeq(content_words, LongerThanThree)
    IN  SubSeq(long, 1, Min(10, Len(long)))

\* a record whose description is enriched with the first value word and the persona
SlotRecordEnriched(a, c) ==
    LET vw == value_words(a.content_summary)
        extra == (IF vw = <<>> THEN "" ELSE vw[1] \o " ") \o a.persona
    IN  [TemplateAd(a.keyword, c) EXCEPT
            !.description = truncate_for_google_ads(extra \o c[3], DESCRIPTION_LIMIT)]

\* the record a call with the arguments a appends for the triple c: the
\* list value_words is built and never read, the pools and the keyword
\* test read a.keyword and nothing else of a
SlotRecord(a, c) ==
    LET unread == value_words(a.content_summary)
    IN  TemplateAd(a.keyword, c)

\* the end of a slot: the keyword test and ads.append; the for loop is back at
\* its head, where attempts is set to 0 again
SlotEnds(c) ==
    /\ ads' = Append(ads, SlotRecord(t_args, c))
    /\ attempts' = 0
    /\ pc' = "TemplateAttempt"

(***************************************************************************)
(* A call of _generate_with_templates by itself.                           *)
(***************************************************************************)
TemplatesInit ==
    /\ pc = "TemplateAttempt"
    /\ path = <<>>
    /\ api_key = None
    /\ content = [success |-> FALSE, error |-> ""]
    /\ args = NoArguments
    /\ backend_calls = 0
    /\ response_text = ""
    /\ \E s \in ContentSummaries, p \in Personas, k \in Keywords, n \in 0..MaxVariants :
           t_args = Arguments(s, p, k, n)
    /\ ads = <<>>
    /\ used_combinations = {}
    /\ attempts = 0
    /\ combination = <<>>
    /\ result = <<>>

\* a while loop that goes on until it draws an unused triple
DrawUntilUnused(a) ==
    \E c \in Combinations(t_args.keyword) :
        IF c \notin used_combinations
        THEN /\ used_combinations' = used_combinations \cup {c}
             /\ combination' = c
             /\ SlotEnds(c)
        ELSE /\ used_combinations' = used_combinations
             /\ pc' = "Resampling"
             /\ attempts' = a + 1
             /\ UNCHANGED <<ads, combination>>

\* one iteration of the while loop, a being the value of attempts before it.
\* A triple drawn before the last iteration of a slot is overwritten by the next
\* draw before anything reads it: combination holds the triple the slot ended with.
DrawOf(a, c) ==
    IF c \notin used_combinations
    THEN /\ used_combinations' = used_combinations \cup {c}
         /\ combination' = c
         /\ SlotEnds(c)
    ELSE /\ used_combinations' = used_combinations
         /\ IF a + 1 < MAX_ATTEMPTS
            THEN /\ pc' = "Resampling"
                 /\ attempts' = a + 1
                 /\ UNCHANGED <<ads, combination>>
            ELSE /\ combination' = c
                 /\ SlotEnds(c)

\* the iteration with any triple random.choice can give
Draw(a) == \E c \in Combinations(t_args.keyword) : DrawOf(a, c)

\* the body of the for loop up to the end of the first iteration of the while loop
TemplateSlot ==
    /\ pc = "TemplateAttempt"
    /\ Len(ads) < t_args.num_variants
    /\ Draw(0)
    /\ UNCHANGED <<path, call_vars, backend_calls, response_text, t_args, result>>
    /\ UNCHANGED pure_vars

\* a further iteration of the while loop
TemplateRetry ==
    /\ pc = "Resampling"
    /\ attempts < MAX_ATTEMPTS
    /\ Draw(attempts)
    /\ UNCHANGED <<path, call_vars, backend_calls, response_text, t_args, result>>
    /\ UNCHANGED pure_vars

\* return ads, through generate_ads
TemplateReturn ==
    /\ pc = "TemplateAttempt"
    /\ Len(ads) >= t_args.num_variants
    /\ result' = ads
    /\ pc' = "Done"
    /\ path' = Append(path, "Done")
    /\ UNCHANGED <<call_vars, backend_calls, response_text, tmpl_vars>>
    /\ UNCHANGED pure_vars

(***************************************************************************)
(* utils.clean_text                                                        *)
(***************************************************************************)
Digits == {"0", "1", "2", "3", "4", "5", "6", "7", "8", "9"}

Letters == DOMAIN LowerOf \cup { LowerOf[c] : c \in DOMAIN LowerOf }

\* a character the pattern \w matches
IsWordChar(c) == c \in Letters \cup Digits \cup {"_"}

\* a character the pattern [^\w\s\.\,\!\?\-\:\;] does not match
IsKept(c) == IsWordChar(c) \/ IsSpace(c) \/ c \in {".", ",", "!", "?", "-", ":", ";"}

RECURSIVE CollapseRange(_, _, _)
\* re.sub(r'\s+', ' ', s) restricted to the characters lo..hi of s: a space
\* for the first character of every run of whitespace, nothing for the rest
CollapseRange(s, lo, hi) ==
    IF lo > hi THEN ""
    ELSE IF lo = hi
    THEN IF ~IsSpace(CharAt(s, lo)) THEN CharAt(s, lo)
         ELSE IF lo > 1 /\ IsSpace(CharAt(s, lo - 1)) THEN "" ELSE " "
    ELSE LET mid == (lo + hi) \div 2
         IN  CollapseRange(s, lo, mid) \o CollapseRange(s, mid + 1, hi)

CollapseWhitespace(s) == CollapseRange(s, 1, Len(s))

RECURSIVE KeepRange(_, _, _)
\* re.sub(r'[^\w\s\.\,\!\?\-\:\;]', '', s) restricted to the characters lo..hi
KeepRange(s, lo, hi) ==
    IF lo > hi THEN ""
    ELSE IF lo = hi THEN (IF IsKept(CharAt(s, lo)) THEN CharAt(s, lo) ELSE "")
    ELSE LET mid == (lo + hi) \div 2
         IN  KeepRange(s, lo, mid) \o KeepRange(s, mid + 1, hi)

RemoveSpecial(s) == KeepRange(s, 1, Len(s))

\* clean_text(text, max_length) for a string
clean_text(text, max_length) ==
    IF text = "" THEN ""
    ELSE LET cleaned == RemoveSpecial(CollapseWhitespace(Strip(text)))
         IN  IF Len(cleaned) > max_length
             THEN RSplitFirst(Prefix(cleaned, max_length), " ") \o "..."
             ELSE cleaned

\* clean_text(text, max_length) for None or a string
CleanTextOf(t, max_length) == IF t = None THEN "" ELSE clean_text(t[1], max_length)

MaxCleanLen == 5     \* longest generated text handed to clean_text
MaxCleanLimit == 4   \* largest generated max_length (the real 300 and 500 are added)

DEFAULT_MAX_LENGTH == 300
BODY_MAX_LENGTH == 500

CleanAlphabet == {"a", " ", "\t", "&"}

RECURSIVE CleanTexts(_)
CleanTexts(n) ==
    IF n = 0 THEN {""}
    ELSE LET shorter == CleanTexts(n - 1)
         IN  shorter \cup { t \o c : t \in { x \in shorter : Len(x) = n - 1 }, c \in CleanAlphabet }

RECURSIVE Repeat(_, _)
\* n copies of s, one after the other
Repeat(s, n) ==
    IF n = 0 THEN ""
    ELSE IF n = 1 THEN s
    ELSE Repeat(s, n \div 2) \o Repeat(s, n - n \div 2)

\* the text of test_app.py, a title with a symbol, a body of 510 characters
\* in words of nine letters and an unbroken run of 501 letters
CleanScenarioTexts ==
    { "  This is a test   with extra spaces  ",
      "Home & Garden",
      Repeat("insurance ", 51),
      Repeat("a", 501) }

CleanInit ==
    /\ ct_pc = "call"
    /\ ct_text \in {None} \cup { Some(t) : t \in CleanTexts(MaxCleanLen) \cup CleanScenarioTexts }
    /\ ct_limit \in 0..MaxCleanLimit \cup {DEFAULT_MAX_LENGTH, BODY_MAX_LENGTH}
    /\ ct_out = ""

\* clean_text(text, max_length)
Clean ==
    /\ ct_pc = "call"
    /\ ct_out' = CleanTextOf(ct_text, ct_limit)
    /\ ct_pc' = "done"
    /\ UNCHANGED <<ct_text, ct_limit, tr_vars, va_vars, gen_vars, kw_vars, pa_vars, sc_vars, tw_vars>>

CleanIdle ==
    /\ ct_pc = "idle" /\ ct_text = None /\ ct_limit = 0 /\ ct_out = ""

(***************************************************************************)
(* utils.extract_keywords                                                  *)
(***************************************************************************)
\* re.findall(r'\b\w+\b', s): the maximal runs of word characters, in order
FindWords(s) ==
    LET starts == Sorted({ i \in 1..Len(s) :
                             /\ IsWordChar(CharAt(s, i))
                             /\ (i = 1 \/ ~IsWordChar(CharAt(s, i - 1))) })
        ends == Sorted({ i \in 1..Len(s) :
                           /\ IsWordChar(CharAt(s, i))
                           /\ (i = Len(s) \/ ~IsWordChar(CharAt(s, i + 1))) })
    IN  [k \in 1..Len(starts) |-> SubSeq(s, starts[k], ends[k])]

stop_words ==
    { "the", "a", "an", "and", "or", "but", "in", "on", "at", "to", "for",
      "of", "with", "by", "is", "are", "was", "were", "be", "been", "being",
      "have", "has", "had", "do", "does", "did", "will", "would", "could",
      "should", "may", "might", "can", "this", "that", "these", "those",
      "i", "you", "he", "she", "it", "we", "they", "me", "him", "her",
      "us", "them", "my", "your", "his", "its", "our", "their" }

IsKeyword(word) == word \notin stop_words /\ Len(word) > 2

\* word_count.items(): the distinct words in the order of their first
\* occurrence, each with the number of its occurrences
CountItems(keywords) ==
    LET first == Sorted({ i \in 1..Len(keywords) :
                            \A j \in 1..(i - 1) : keywords[j] # keywords[i] })
    IN  [k \in 1..Len(first) |->
            [word |-> keywords[first[k]],
             count |-> Cardinality({ i \in 1..Len(keywords) : keywords[i] = keywords[first[k]] })]]

\* an insertion that puts the item before the items of the same count
InsertBeforeTies(sorted, item) ==
    LET p == Cardinality({ i \in 1..Len(sorted) : sorted[i].count > item.count })
    IN  SubSeq(sorted, 1, p) \o <<item>> \o SubSeq(sorted, p + 1, Len(sorted))

\* the place of one item in sorted(..., key=count, reverse=True): after the
\* items of a greater or the same count that precede it (the sort is stable)
InsertByCount(sorted, item) ==
    LET p == Cardinality({ i \in 1..Len(sorted) : sorted[i].count >= item.count })
    IN  SubSeq(sorted, 1, p) \o <<item>> \o SubSeq(sorted, p + 1, Len(sorted))

RECURSIVE SortByCount(_, _)
\* sorted(items[:k], key=lambda x: x[1], reverse=True)
SortByCount(items, k) ==
    IF k = 0 THEN <<>> ELSE InsertByCount(SortByCount(items, k - 1), items[k])

\* extract_keywords(text, max_keywords)
extract_keywords(text, max_keywords) ==
    IF text = "" THEN <<>>
    ELSE LET words == FindWords(Lower(text))
             keywords == SelectSeq(words, IsKeyword)
             items == CountItems(keywords)
             sorted_keywords == SortByCount(items, Len(items))
             top == SubSeq(sorted_keywords, 1, Min(max_keywords, Len(sorted_keywords)))
         IN  [k \in 1..Len(top) |-> top[k].word]

MaxWords == 3        \* pieces of a generated text handed to extract_keywords
MaxKeywords == 2     \* largest generated max_keywords (the default 5 is added)

DEFAULT_MAX_KEYWORDS == 5

KeywordPieces == { "the ", "Home, ", "home ", "ad ", "quotes.", "so-so " }

RECURSIVE KeywordTexts(_)
KeywordTexts(n) ==
    IF n = 0 THEN {""}
    ELSE {""} \cup { p \o t : p \in KeywordPieces, t \in KeywordTexts(n - 1) }

KeywordScenarioTexts ==
    { "This is a test of keyword extraction functionality",
      "Cheap quotes, cheap cover: home cover and home quotes for every home" }

KeywordsInit ==
    /\ kw_pc = "call"
    /\ kw_text \in KeywordTexts(MaxWords) \cup KeywordScenarioTexts
    /\ kw_max \in 0..MaxKeywords \cup {DEFAULT_MAX_KEYWORDS}
    /\ kw_out = <<>>

\* extract_keywords(text, max_keywords)
ExtractKeywords ==
    /\ kw_pc = "call"
    /\ kw_out' = extract_keywords(kw_text, kw_max)
    /\ kw_pc' = "done"
    /\ UNCHANGED <<kw_text, kw_max, tr_vars, va_vars, gen_vars, ct_vars, pa_vars, sc_vars, tw_vars>>

KeywordsIdle ==
    /\ kw_pc = "idle" /\ kw_text = "" /\ kw_max = 0 /\ kw_out = <<>>

(***************************************************************************)
(* The loop of _parse_openai_response applied to one response.             *)
(***************************************************************************)
\* the blocks of ResponseBlocks and two blocks that begin an ad and leave it
\* incomplete
ParserBlocks ==
    ResponseBlocks \cup
        { "Ad 5:\nDescription: Family cover from day one. Apply in minutes!\n",
          "Ad 6:\nHeadline 2: Switch And Save\n" }

RECURSIVE ParserResponses(_)
\* the texts of at most n blocks
ParserResponses(n) ==
    IF n = 0 THEN {""}
    ELSE {""} \cup { b \o r : b \in ParserBlocks, r \in ParserResponses(n - 1) }

ParseInit ==
    /\ pa_pc = "call"
    /\ pa_text \in ParserResponses(MaxBlocks)
    /\ pa_out = <<>>

\* the loop over the lines and the test of the last ad
ParseAds ==
    /\ pa_pc = "call"
    /\ pa_out' = ParsedAds(pa_text)
    /\ pa_pc' = "done"
    /\ UNCHANGED <<pa_text, tr_vars, va_vars, gen_vars, ct_vars, kw_vars, sc_vars, tw_vars>>

ParseIdle ==
    /\ pa_pc = "idle" /\ pa_text = "" /\ pa_out = <<>>

(***************************************************************************)
(* utils.validate_url: the pattern, matched piece by piece.                *)
(***************************************************************************)
\* every character of s is in the set chars
AllIn(s, chars) == \A i \in 1..Len(s) : CharAt(s, i) \in chars

EndsWith(s, p) == Len(p) <= Len(s) /\ SubSeq(s, Len(s) - Len(p) + 1, Len(s)) = p

\* [A-Z0-9](?:[A-Z0-9-]{0,61}[A-Z0-9])? under re.IGNORECASE
IsDomainLabel(s) ==
    /\ Len(s) \in 1..63
    /\ AllIn(s, Letters \cup Digits \cup {"-"})
    /\ CharAt(s, 1) # "-"
    /\ CharAt(s, Len(s)) # "-"

\* (?:label\.)+[A-Z]{2,6}\.?
IsDomainName(host) ==
    LET h == IF EndsWith(host, ".") THEN Prefix(host, Len(host) - 1) ELSE host
        labels == Split(h, ".")
        n == Len(labels)
    IN  /\ n >= 2
        /\ Len(labels[n]) \in 2..6
        /\ AllIn(labels[n], Letters)
        /\ \A k \in 1..(n - 1) : IsDomainLabel(labels[k])

\* \d{1,3}\.\d{1,3}\.\d{1,3}\.\d{1,3}
IsDottedQuad(host) ==
    LET parts == Split(host, ".")
    IN  /\ Len(parts) = 4
        /\ \A k \in 1..4 : Len(parts[k]) \in 1..3 /\ AllIn(parts[k], Digits)

\* the text after 'http://' or 'https://', or None when the url starts with neither
AfterScheme(url) ==
    LET u == Lower(url)
    IN  IF StartsWith(u, "http://") THEN Some(Suffix(url, 7))
        ELSE IF StartsWith(u, "https://") THEN Some(Suffix(url, 8))
        ELSE None

\* the longest prefix of s made of the characters a host can hold
HostRun(s) ==
    LET others == { i \in 1..Len(s) : CharAt(s, i) \notin Letters \cup Digits \cup {"-", "."} }
    IN  IF others = {} THEN s ELSE Prefix(s, SetMin(others) - 1)

\* s without a leading ':' and digits, when it starts with them
AfterPort(s) ==
    IF ~StartsWith(s, ":") THEN s
    ELSE LET others == { i \in 2..Len(s) : CharAt(s, i) \notin Digits }
             stop == IF others = {} THEN Len(s) + 1 ELSE SetMin(others)
         IN  IF stop = 2 THEN s ELSE Suffix(s, stop - 1)

\* (?:/?|[/?]\S+) up to the end of the string
IsPathToEnd(s) ==
    \/ s = ""
    \/ s = "/"
    \/ /\ Len(s) >= 2
       /\ CharAt(s, 1) \in {"/", "?"}
       /\ \A i \in 2..Len(s) : ~IsSpace(CharAt(s, i))

\* validate_url(url)
validate_url(url) ==
    LET rest == AfterScheme(url)
    IN  /\ rest # None
        /\ LET host == HostRun(rest[1])
               tail == AfterPort(Suffix(rest[1], Len(host)))
           IN  /\ \/ IsDomainName(host)
                  \/ Lower(host) = "localhost"
                  \/ IsDottedQuad(host)
               /\ \/ IsPathToEnd(tail)
                  \/ EndsWith(tail, "\n") /\ IsPathToEnd(Prefix(tail, Len(tail) - 1))

(***************************************************************************)
(* WebScraper.  A page is what BeautifulSoup gives for the markup: the     *)
(* texts of its title elements, its h1, h2 and h3 elements in document     *)
(* order, the content of its description tags (None when the tag or the    *)
(* attribute is missing) and the text of its main container (None when it  *)
(* has neither a container nor a body).                                    *)
(***************************************************************************)
Heading(tag, text) == [tag |-> tag, text |-> text]

Page(titles, headings, meta, og, main) ==
    [titles |-> titles, headings |-> headings, meta |-> meta, og |-> og, main |-> main]

\* the text of the first element with one of the tags, None when there is none
FindText(headings, tags) ==
    LET at == { k \in 1..Len(headings) : headings[k].tag \in tags }
    IN  IF at = {} THEN None ELSE Some(headings[SetMin(at)].text)

\* a title extraction that looks at the h1 first
ExtractTitleHeadingFirst(page) ==
    LET title_tag == IF page.titles = <<>> THEN None ELSE Some(page.titles[1])
        h1_tag == FindText(page.headings, {"h1"})
    IN  IF h1_tag # None /\ Strip(h1_tag[1]) # ""
        THEN clean_text(h1_tag[1], DEFAULT_MAX_LENGTH)
        ELSE IF title_tag # None /\ Strip(title_tag[1]) # ""
        THEN clean_text(title_tag[1], DEFAULT_MAX_LENGTH)
        ELSE ""

\* _extract_title(soup)
extract_title(page) ==
    LET title_tag == IF page.titles = <<>> THEN None ELSE Some(page.titles[1])
        h1_tag == FindText(page.headings, {"h1"})
    IN  IF title_tag # None /\ Strip(title_tag[1]) # ""
        THEN clean_text(title_tag[1], DEFAULT_MAX_LENGTH)
        ELSE IF h1_tag # None /\ Strip(h1_tag[1]) # ""
        THEN clean_text(h1_tag[1], DEFAULT_MAX_LENGTH)
        ELSE ""

NonBlankHeading(h) == Strip(h.text) # ""

\* _extract_headings(soup)
extract_headings(page) ==
    LET found == SelectSeq(page.headings, NonBlankHeading)
        headings == [k \in 1..Len(found) |-> clean_text(Strip(found[k].text), DEFAULT_MAX_LENGTH)]
    IN  SubSeq(headings, 1, Min(5, Len(headings)))

\* _extract_meta_description(soup)
extract_meta_description(page) ==
    IF page.meta # None /\ page.meta[1] # ""
    THEN clean_text(page.meta[1], DEFAULT_MAX_LENGTH)
    ELSE IF page.og # None /\ page.og[1] # ""
    THEN clean_text(page.og[1], DEFAULT_MAX_LENGTH)
    ELSE ""

\* _extract_body_text(soup)
extract_body_text(page) ==
    IF page.main = None THEN "" ELSE clean_text(page.main[1], BODY_MAX_LENGTH)

RECURSIVE Join(_, _)
\* sep.join(parts)
Join(sep, parts) ==
    IF parts = <<>> THEN ""
    ELSE IF Len(parts) = 1 THEN parts[1]
    ELSE parts[1] \o sep \o Join(sep, Tail(parts))

\* get_content_summary(content)
get_content_summary(c) ==
    LET body_preview == Prefix(c.body_text, 200) \o (IF Len(c.body_text) > 200 THEN "..." ELSE "")
    IN  Join("\n",
             (IF c.title # "" THEN << "Title: " \o c.title >> ELSE <<>>)
                 \o (IF c.meta_description # "" THEN << "Description: " \o c.meta_description >> ELSE <<>>)
                 \o (IF c.headings # <<>>
                     THEN << "Key Headings: " \o Join(" | ", SubSeq(c.headings, 1, Min(3, Len(c.headings)))) >>
                     ELSE <<>>)
                 \o (IF c.body_text # "" THEN << "Content: " \o body_preview >> ELSE <<>>))

\* the dict scrape_url returns for a page it could process
ScrapedContent(page) ==
    LET body_text == extract_body_text(page)
        c == [title |-> extract_title(page),
              headings |-> extract_headings(page),
              meta_description |-> extract_meta_description(page),
              body_text |-> body_text,
              keywords |-> IF body_text # ""
                           THEN extract_keywords(body_text, DEFAULT_MAX_KEYWORDS)
                           ELSE <<>>]
    IN  [success |-> TRUE,
         title |-> c.title,
         meta_description |-> c.meta_description,
         summary |-> get_content_summary(c),
         headings |-> c.headings,
         body_text |-> c.body_text,
         keywords |-> c.keywords]

\* the dict scrape_url returns from its except clauses
ScrapeFailure(prefix, e) == [success |-> FALSE, error |-> prefix \o e]

Urls ==
    { "https://example.com", "http://test.com/page", "HTTP://Shop.Example.COM:8080/deals?id=7",
      "http://localhost:3000/", "http://192.168.0.1/admin",
      "invalid-url", "", "ftp://example.com/file", "http://",
      "http://intranet/page", "http://example.technology/", "http://my_shop.example.com/" }

\* the host and port of a url that starts with http:// or https://
Netloc(url) ==
    LET rest == AfterScheme(url)[1]
        ends == { i \in 1..Len(rest) : CharAt(rest, i) \in {"/", "?", "#"} }
    IN  IF ends = {} THEN rest ELSE Prefix(rest, SetMin(ends) - 1)

\* session.get sends a request for an http or https url that names a host;
\* for any other url it raises before anything is sent
Sendable(url) == AfterScheme(url) # None /\ Netloc(url) # ""

FetchErrors == { "ConnectTimeout", "ConnectionError" }

Statuses == { 200, 404 }

Pages ==
    { Page(<<"Test Page">>,
           << Heading("h1", "Welcome"), Heading("h2", " Features "), Heading("h3", "") >>,
           Some("Test description"), None, Some("Welcome to the test page. Compare home cover and save.")),
      Page(<<>>, << Heading("h2", "Offers"), Heading("h1", "Great Deals"), Heading("h1", "More Deals") >>,
           None, Some("Deals & offers"), Some(Repeat("insurance ", 51))),
      Page(<< " \n ", "Second Title" >>, << Heading("h1", "Home & Garden") >>, Some(""), None, Some("")),
      Page(<< "***" >>, << Heading("h1", "Welcome") >>, None, None, None),
      Page(<< "" >>, << Heading("h1", "  "), Heading("h1", "Real Heading") >>, None, None, None),
      Page(<<>>, <<>>, None, None, None) }

ScrapeInit ==
    /\ sc_pc = "call"
    /\ sc_url \in Urls
    /\ sc_gets = 0
    /\ sc_response = None
    /\ sc_raised = None
    /\ sc_out = None

\* the except clauses of scrape_url: the exception e becomes a returned dict
Caught(prefix, e) ==
    /\ sc_raised' = Some(e)
    /\ sc_out' = Some(ScrapeFailure(prefix, e))
    /\ sc_pc' = "returned"

\* response = self.session.get(url, timeout=self.timeout)
SessionGet ==
    /\ sc_pc = "call"
    /\ IF ~Sendable(sc_url)
       THEN /\ Caught("Failed to scrape URL: ", "InvalidSchema")
            /\ UNCHANGED <<sc_gets, sc_response>>
       ELSE /\ sc_gets' = sc_gets + 1
            /\ \/ /\ \E e \in FetchErrors : Caught("Failed to scrape URL: ", e)
                  /\ UNCHANGED sc_response
               \/ /\ \E s \in Statuses, p \in Pages : sc_response' = Some([status |-> s, page |-> p])
                  /\ sc_pc' = "fetched"
                  /\ UNCHANGED <<sc_raised, sc_out>>
    /\ UNCHANGED <<sc_url, tr_vars, va_vars, gen_vars, ct_vars, kw_vars, pa_vars, tw_vars>>

\* response.raise_for_status()
RaiseForStatus ==
    /\ sc_pc = "fetched"
    /\ IF sc_response[1].status >= 400
       THEN Caught("Failed to scrape URL: ", "HTTPError")
       ELSE /\ sc_pc' = "parsing"
            /\ UNCHANGED <<sc_raised, sc_out>>
    /\ UNCHANGED <<sc_url, sc_gets, sc_response, tr_vars, va_vars, gen_vars, ct_vars, kw_vars, pa_vars, tw_vars>>

\* the extraction, the summary and the return of the content
ExtractContent ==
    /\ sc_pc = "parsing"
    /\ sc_out' = Some(ScrapedContent(sc_response[1].page))
    /\ sc_pc' = "returned"
    /\ UNCHANGED <<sc_url, sc_gets, sc_response, sc_raised, tr_vars, va_vars, gen_vars, ct_vars, kw_vars, pa_vars, tw_vars>>

\* a scrape_url whose second except clause is missing
ProcessingFailsUncaught ==
    /\ sc_pc = "parsing"
    /\ sc_raised' = Some("ParserRejectedMarkup")
    /\ sc_pc' = "raised"
    /\ UNCHANGED <<sc_url, sc_gets, sc_response, sc_out, tr_vars, va_vars, gen_vars, ct_vars, kw_vars, pa_vars, tw_vars>>

\* BeautifulSoup or one of the extraction steps raises
ProcessingFails ==
    /\ sc_pc = "parsing"
    /\ Caught("Error processing content: ", "ParserRejectedMarkup")
    /\ UNCHANGED <<sc_url, sc_gets, sc_response, tr_vars, va_vars, gen_vars, ct_vars, kw_vars, pa_vars, tw_vars>>

ScrapeIdle ==
    /\ sc_pc = "idle" /\ sc_url = "" /\ sc_gets = 0
    /\ sc_response = None /\ sc_raised = None /\ sc_out = None

(***************************************************************************)
(* Two calls of _generate_with_templates side by side: the same keyword    *)
(* and num_variants, content_summary and persona of their own, and every   *)
(* random.choice giving both the same entry of its pool.                   *)
(***************************************************************************)
TwinPersonas == Personas \cup { "" }

TwinInit ==
    /\ TemplatesInit
    /\ tw_pc = "TemplateAttempt"
    /\ \E s \in ContentSummaries, p \in TwinPersonas :
           /\ tw_args = Arguments(s, p, t_args.keyword, t_args.num_variants)
           /\ tw_args # t_args
    /\ tw_ads = <<>>
    /\ tw_used = {}
    /\ tw_attempts = 0
    /\ tw_result = <<>>

\* the end of a slot of the second call
TwinSlotEnds(c) ==
    /\ tw_ads' = Append(tw_ads, SlotRecord(tw_args, c))
    /\ tw_attempts' = 0
    /\ tw_pc' = "TemplateAttempt"

\* one iteration of the while loop of the second call with the triple c
TwinDrawOf(a, c) ==
    IF c \notin tw_used
    THEN /\ tw_used' = tw_used \cup {c}
         /\ TwinSlotEnds(c)
    ELSE /\ tw_used' = tw_used
         /\ IF a + 1 < MAX_ATTEMPTS
            THEN /\ tw_pc' = "Resampling"
                 /\ tw_attempts' = a + 1
                 /\ UNCHANGED tw_ads
            ELSE TwinSlotEnds(c)

\* the second call takes the triple c if it is about to sample one
TwinConsumes(c) ==
    IF tw_pc = "TemplateAttempt" /\ Len(tw_ads) < tw_args.num_variants
    THEN TwinDrawOf(0, c)
    ELSE IF tw_pc = "Resampling" /\ tw_attempts < MAX_ATTEMPTS
    THEN TwinDrawOf(tw_attempts, c)
    ELSE UNCHANGED <<tw_pc, tw_ads, tw_used, tw_attempts>>

untouched_by_twin == <<tr_vars, va_vars, ct_vars, kw_vars, pa_vars, sc_vars>>

\* the first sample of a slot, given to both calls
TwinSlot ==
    /\ pc = "TemplateAttempt"
    /\ Len(ads) < t_args.num_variants
    /\ \E c \in Combinations(t_args.keyword) : DrawOf(0, c) /\ TwinConsumes(c)
    /\ UNCHANGED <<path, call_vars, backend_calls, response_text, t_args, result>>
    /\ UNCHANGED <<tw_args, tw_result, untouched_by_twin>>

\* a further sample of a slot, given to both calls
TwinRetry ==
    /\ pc = "Resampling"
    /\ attempts < MAX_ATTEMPTS
    /\ \E c \in Combinations(t_args.keyword) : DrawOf(attempts, c) /\ TwinConsumes(c)
    /\ UNCHANGED <<path, call_vars, backend_calls, response_text, t_args, result>>
    /\ UNCHANGED <<tw_args, tw_result, untouched_by_twin>>

\* return ads of the second call
TwinReturn ==
    /\ tw_pc = "TemplateAttempt"
    /\ Len(tw_ads) >= tw_args.num_variants
    /\ tw_result' = tw_ads
    /\ tw_pc' = "Done"
    /\ UNCHANGED <<tw_args, tw_ads, tw_used, tw_attempts, gen_vars, untouched_by_twin>>

TwinIdle ==
    /\ tw_pc = "idle" /\ tw_args = NoArguments /\ tw_ads = <<>>
    /\ tw_used = {} /\ tw_attempts = 0 /\ tw_result = <<>>

UtilIdle == CleanIdle /\ KeywordsIdle /\ ParseIdle /\ ScrapeIdle /\ TwinIdle

Next ==
    \/ ScrapeUrl
    \/ ScrapeFailed
    \/ CallGenerateAds
    \/ GenerateAds
    \/ OpenAIFails
    \/ OpenAIResponds
    \/ ParseResponse
    \/ TemplateSlot
    \/ TemplateRetry
    \/ TemplateReturn

Init == GenInit /\ TruncIdle /\ ValidateIdle /\ UtilIdle

Spec == Init /\ [][Next]_vars

ValidateNext == Validate

InitValidate == ValidateInit /\ TruncIdle /\ GenIdle /\ UtilIdle

SpecValidate == InitValidate /\ [][ValidateNext]_vars

TruncNext ==
    \/ Truncate
    \/ TruncateAgain

InitTruncate == TruncInit /\ ValidateIdle /\ GenIdle /\ UtilIdle

SpecTruncate == InitTruncate /\ [][TruncNext]_vars

CleanNext == Clean

InitClean == CleanInit /\ TruncIdle /\ ValidateIdle /\ GenIdle /\ KeywordsIdle /\ ParseIdle /\ ScrapeIdle /\ TwinIdle

SpecClean == InitClean /\ [][CleanNext]_vars

KeywordsNext == ExtractKeywords

InitKeywords == KeywordsInit /\ TruncIdle /\ ValidateIdle /\ GenIdle /\ CleanIdle /\ ParseIdle /\ ScrapeIdle /\ TwinIdle

SpecKeywords == InitKeywords /\ [][KeywordsNext]_vars

ParseNext == ParseAds

InitParse == ParseInit /\ TruncIdle /\ ValidateIdle /\ GenIdle /\ CleanIdle /\ KeywordsIdle /\ ScrapeIdle /\ TwinIdle

SpecParse == InitParse /\ [][ParseNext]_vars

ScrapeNext ==
    \/ SessionGet
    \/ RaiseForStatus
    \/ ExtractContent
    \/ ProcessingFails

InitScrape == ScrapeInit /\ TruncIdle /\ ValidateIdle /\ GenIdle /\ CleanIdle /\ KeywordsIdle /\ ParseIdle /\ TwinIdle

SpecScrape == InitScrape /\ [][ScrapeNext]_vars

TemplatesNext ==
    \/ TemplateSlot
    \/ TemplateRetry
    \/ TemplateReturn

InitTemplates == TemplatesInit /\ TruncIdle /\ ValidateIdle /\ UtilIdle

\* the call runs on as long as it has a step to take: WF_vars(TemplatesNext),
\* with ENABLED <<TemplatesNext>>_vars written as the state predicate it
\* amounts to (a step is possible until the call has returned)
TemplatesFair == []<>(pc = "Done") \/ []<><<TemplatesNext>>_vars

SpecTemplates == InitTemplates /\ [][TemplatesNext]_vars /\ TemplatesFair

TwinNext ==
    \/ TwinSlot
    \/ TwinRetry
    \/ TemplateReturn
    \/ TwinReturn

InitTwin == TwinInit /\ TruncIdle /\ ValidateIdle /\ CleanIdle /\ KeywordsIdle /\ ParseIdle /\ ScrapeIdle

SpecTwin == InitTwin /\ [][TwinNext]_vars

(***************************************************************************)
(* Properties of generate_ads and of the demo flow (checked under Spec).   *)
(***************************************************************************)
Range(f) == { f[x] : x \in DOMAIN f }

AdKeys == {"headline1", "headline2", "description"}

TemplateMode == ~Truthy(api_key)

\* C1: every record generate_ads returns has headline1 and headline2 of at
\* most 30 characters and a description of at most 90, whatever the inputs,
\* the outcome of the backend and the random draws.
C1_ReturnedWithinLimits ==
    pc = "Done" => \A k \in 1..Len(result) : WithinLimits(result[k])

\* a call with a keyword longer than a whole headline has returned records
\* built from that keyword
C1_Witness ==
    /\ pc = "Done"
    /\ Len(result) > 0
    /\ t_args.keyword = args.keyword
    /\ Len(args.keyword) > HEADLINE_LIMIT
    /\ result = ads

\* C2: generate_ads returns exactly num_variants records, each with exactly
\* the keys headline1, headline2 and description, in template mode (also when
\* the retries of a slot are used up) and on the generative path.
C2_ExactlyNumVariants ==
    pc = "Done" =>
        /\ Len(result) = args.num_variants
        /\ \A k \in 1..Len(result) : DOMAIN result[k] = AdKeys

\* in template mode a slot used up its retries and its record repeats an
\* earlier one
C2_Witness ==
    /\ pc = "Done"
    /\ TemplateMode
    /\ args.num_variants >= 2
    /\ Len(result) = args.num_variants
    /\ Cardinality(used_combinations) < Len(result)
    /\ result[1] = result[2]

\* C3: in template mode the keyword occurs, ignoring case, in headline1 of
\* every returned variant.
C3_KeywordInFirstHeadline ==
    (pc = "Done" /\ TemplateMode) =>
        \A k \in 1..Len(result) :
            Contains(Lower(args.keyword), Lower(result[k].headline1))

\* C4: after a failed scrape the copy generation returns exactly one fallback
\* variant whose description holds the failure reason, and runs neither the
\* generative nor the template path.
C4_FailureGivesOneFallbackVariant ==
    pc = "ScrapeFailed" =>
        /\ Len(result) = 1
        /\ Contains(content.error, result[1].description)
        /\ path = <<>>
        /\ backend_calls = 0

AllowedPaths ==
    { <<"AwaitingGeneration", "GenerativeAttempt", "Done">>,
      <<"AwaitingGeneration", "GenerativeAttempt", "TemplateAttempt", "Done">>,
      <<"AwaitingGeneration", "TemplateAttempt", "Done">> }

IsPrefix(p, q) == Len(p) <= Len(q) /\ SubSeq(q, 1, Len(p)) = p

\* C5: a generate_ads call goes AwaitingGeneration, then GenerativeAttempt or
\* TemplateAttempt, then Done, with the one edge from GenerativeAttempt to
\* TemplateAttempt; the backend is requested at most once and only with a
\* credential that is neither absent nor empty; the template path requests
\* nothing; no exception reaches the caller.
C5_GenerationPath ==
    /\ \E q \in AllowedPaths : IsPrefix(path, q)
    /\ backend_calls <= 1
    /\ backend_calls = 1 => (Truthy(api_key) /\ "GenerativeAttempt" \in Range(path))
    /\ TemplateMode => "GenerativeAttempt" \notin Range(path)
    /\ pc \in {"TemplateAttempt", "Resampling"} =>
           backend_calls = (IF "GenerativeAttempt" \in Range(path) THEN 1 ELSE 0)
    /\ pc # "Raised"
    /\ pc = "Done" <=> (path # <<>> /\ path[Len(path)] = "Done")

\* a call that asked the backend once, fell back to the templates and returned
C5_Witness ==
    /\ pc = "Done"
    /\ path = <<"AwaitingGeneration", "GenerativeAttempt", "TemplateAttempt", "Done">>
    /\ backend_calls = 1
    /\ Len(result) > 0

\* the records _generate_with_templates appends for the triples it has drawn
TemplateRecords == { TemplateAd(t_args.keyword, c) : c \in used_combinations }

\* the records the parser can obtain from a backend response
BackendRecords == UNION { Range(ParsedAds(r)) : r \in Responses(MaxBlocks) }

\* the step that ends _parse_openai_response
C6_ParseStep ==
    (pc = "Parsing" /\ pc' # "Parsing") =>
        LET parsed == ParsedAds(response_text)
        IN  IF Len(parsed) < args.num_variants
            THEN /\ pc' = "TemplateAttempt"
                 /\ ads' = <<>>
                 /\ used_combinations' = {}
                 /\ result' = <<>>
            ELSE /\ pc' = "Done"
                 /\ result' = SubSeq(parsed, 1, args.num_variants)

\* what a call returns after a parse that fell back
C6_FallbackResult ==
    (pc = "Done" /\ "TemplateAttempt" \in Range(path)) =>
        /\ result = ads
        /\ \A k \in 1..Len(result) :
               /\ result[k] \in TemplateRecords
               /\ result[k] \notin BackendRecords

\* C6: when the parser obtains fewer complete records than expected_variants,
\* no parsed record is returned and the result is made of template records
\* only; otherwise the result is the first expected_variants parsed records in
\* the order of the response.
C6_AllOrNothing == [][C6_ParseStep]_vars /\ []C6_FallbackResult

\* a response with more complete records than asked for has been parsed and
\* its first records returned
C6_Witness ==
    /\ pc = "Done"
    /\ path = <<"AwaitingGeneration", "GenerativeAttempt", "Done">>
    /\ args.num_variants >= 1
    /\ Len(ParsedAds(response_text)) > args.num_variants
    /\ result = SubSeq(ParsedAds(response_text), 1, args.num_variants)

(***************************************************************************)
(* Properties of truncate_for_google_ads (checked under SpecTruncate).     *)
(***************************************************************************)

\* C7: for every string s and every limit n >= 4 the result of
\* truncate_for_google_ads(s, n) is no longer than n and no longer than s.
C7_TruncateWithinLimit ==
    (tr_pc # "call" /\ tr_limit >= 4) =>
        /\ Len(tr_out) <= tr_limit
        /\ Len(tr_out) <= Len(tr_text)

\* a text longer than a limit >= 4 has been cut to something shorter
C7_Witness ==
    /\ tr_pc = "truncated"
    /\ tr_limit >= 4
    /\ Len(tr_text) > tr_limit
    /\ Len(tr_out) < tr_limit
    /\ Len(tr_out) > 0

\* C8: truncating the result of a truncation again, with the same limit,
\* changes nothing.
C8_TruncateIdempotent ==
    tr_pc = "done" => tr_again = tr_out

\* a text that was really cut, at a word boundary, to a result that still
\* holds a space, has been truncated a second time
C8_Witness ==
    /\ tr_pc = "done"
    /\ Len(tr_text) > tr_limit
    /\ tr_out # tr_text
    /\ Contains(" ", tr_out)
    /\ tr_again = tr_out

\* out is a proper prefix of text that stops inside a word of text
EndsMidWord(out, text) ==
    /\ Len(out) > 0
    /\ Len(out) < Len(text)
    /\ out = Prefix(text, Len(out))
    /\ ~IsSpace(CharAt(text, Len(out)))
    /\ ~IsSpace(CharAt(text, Len(out) + 1))

\* C9: a text longer than the limit is cut at the limit and backed off to the
\* last word boundary of the cut string when it has one, so that the result
\* does not end inside a word; with no boundary in the cut string the result is
\* the first limit-3 characters followed by "...".
C9_TruncationRule ==
    (tr_pc # "call" /\ tr_limit >= 4 /\ Len(tr_text) > tr_limit) =>
        LET cut == Prefix(tr_text, tr_limit)
        IN  IF Contains(" ", cut)
            THEN /\ tr_out = RSplitFirst(cut, " ")
                 /\ ~EndsMidWord(tr_out, tr_text)
            ELSE tr_out = Prefix(tr_text, tr_limit - 3) \o "..."

(***************************************************************************)
(* Properties of validate_ads (checked under SpecValidate).                *)
(***************************************************************************)
NonEmptyFields(ad) ==
    /\ ad.headline1 # ""
    /\ ad.headline2 # ""
    /\ ad.description # ""

AcceptedAndNonEmpty(ad) == HasAllFields(ad) /\ WithinLimits(ad) /\ NonEmptyFields(ad)

\* C10: validate_ads returns, in input order and unchanged, exactly the
\* records whose three fields are present, within the limits 30, 30, 90 and
\* non-empty.
C10_ValidateKeepsExactlyTheValid ==
    va_pc = "done" => va_out = SelectSeq(va_in, AcceptedAndNonEmpty)

(***************************************************************************)
(* Further properties of generate_ads (checked under Spec).                *)
(***************************************************************************)

\* C11: every record generate_ads returns, on the generative path as on the
\* template path, has a non-empty headline1, headline2 and description; a
\* record parsed with an empty field is dropped, never returned.
C11_ReturnedFieldsNonEmpty ==
    pc = "Done" => \A k \in 1..Len(result) : NonEmptyFields(result[k])

(***************************************************************************)
(* Properties of clean_text (checked under SpecClean).                     *)
(***************************************************************************)
\* positions of s at which a whitespace character is followed by another
WhitespaceRuns(s) ==
    { i \in 1..(Len(s) - 1) : IsSpace(CharAt(s, i)) /\ IsSpace(CharAt(s, i + 1)) }

\* C14: the result of clean_text holds no run of two or more whitespace
\* characters and neither starts nor ends with whitespace; None and the empty
\* string give the empty string.
C14_CleanTextWhitespace ==
    ct_pc = "done" =>
        /\ WhitespaceRuns(ct_out) = {}
        /\ ct_out = Strip(ct_out)
        /\ (ct_text = None \/ ct_text = Some("")) => ct_out = ""

\* a result of clean_text that was cut: it is longer than the cleaned text
\* allowed, so the branch of the length test ran
CleanTruncated ==
    /\ ct_text # None
    /\ Len(RemoveSpecial(CollapseWhitespace(Strip(ct_text[1])))) > ct_limit

\* C15: the result of clean_text is never longer than max_length, for the
\* body excerpt never longer than 500; a cut text ends with the ellipsis
\* and what precedes the ellipsis ends at a word boundary of the cleaned text.
C15_CleanTextWithinLimit ==
    ct_pc = "done" =>
        /\ Len(ct_out) <= ct_limit
        /\ CleanTruncated =>
               LET cleaned == RemoveSpecial(CollapseWhitespace(Strip(ct_text[1])))
                   kept == Len(ct_out) - 3
               IN  /\ kept >= 0
                   /\ Suffix(ct_out, kept) = "..."
                   /\ Prefix(ct_out, kept) = Prefix(cleaned, kept)
                   /\ CharAt(cleaned, kept + 1) = " "

(***************************************************************************)
(* Properties of extract_keywords (checked under SpecKeywords).            *)
(***************************************************************************)
\* the lower-cased tokens of the text handed to extract_keywords
KeywordTokens == FindWords(Lower(kw_text))

Frequency(w) == Cardinality({ i \in 1..Len(KeywordTokens) : KeywordTokens[i] = w })

FirstOccurrence(w) == SetMin({ i \in 1..Len(KeywordTokens) : KeywordTokens[i] = w })

\* w comes before v: it is more frequent, or as frequent and met earlier
RanksBefore(w, v) ==
    \/ Frequency(w) > Frequency(v)
    \/ Frequency(w) = Frequency(v) /\ FirstOccurrence(w) < FirstOccurrence(v)

\* C16: extract_keywords returns at most max_keywords distinct lower-cased
\* tokens of the text, each longer than 2 characters and none a stop word, in
\* the order of descending frequency with ties in the order of first
\* occurrence; a token left out ranks after every token returned.
C16_KeywordsRanked ==
    kw_pc = "done" =>
        LET eligible == { w \in Range(KeywordTokens) : Len(w) > 2 /\ w \notin stop_words }
        IN  /\ Len(kw_out) <= kw_max
            /\ Len(kw_out) = Min(kw_max, Cardinality(eligible))
            /\ \A i \in 1..Len(kw_out) : kw_out[i] \in eligible /\ kw_out[i] = Lower(kw_out[i])
            /\ \A i, j \in 1..Len(kw_out) : i < j => RanksBefore(kw_out[i], kw_out[j])
            /\ \A w \in eligible \ Range(kw_out) :
                   \A i \in 1..Len(kw_out) : RanksBefore(kw_out[i], w)

\* a text in which a later token is more frequent than an earlier one and two
\* tokens are as frequent as each other; all of them were returned
C16_Witness ==
    /\ kw_pc = "done"
    /\ Len(kw_out) >= 3
    /\ \E i, j \in 1..Len(kw_out) : i < j /\ FirstOccurrence(kw_out[i]) > FirstOccurrence(kw_out[j])
    /\ \E i, j \in 1..Len(kw_out) : i < j /\ Frequency(kw_out[i]) = Frequency(kw_out[j])
    /\ \E i, j \in 1..Len(kw_out) : Frequency(kw_out[i]) > Frequency(kw_out[j])

(***************************************************************************)
(* Properties of the parser's loop (checked under SpecParse).              *)
(***************************************************************************)
\* a line that begins an 'Ad N' block
IsAdHeader(raw) ==
    LET line == Strip(raw)
    IN  line # "" /\ StartsWith(Lower(line), "ad ") /\ Contains(":", line)

\* the fields the lines of block b of the response give, b counting the
\* 'Ad N' lines met so far (block 0 is what precedes the first of them)
BlockFields(text, b) ==
    LET lines == Split(text, "\n")
        block(k) == Cardinality({ j \in 1..k : IsAdHeader(lines[j]) })
        mine == { k \in 1..Len(lines) : block(k) = b }
    IN  IF mine = {} THEN EmptyDict
        ELSE ParseLines([ads |-> <<>>, current_ad |-> EmptyDict, ad_count |-> 0],
                        SubSeq(lines, SetMin(mine), SetMax(mine)), 1).current_ad

BlockCount(text) ==
    LET lines == Split(text, "\n")
    IN  Cardinality({ j \in 1..Len(lines) : IsAdHeader(lines[j]) })

\* C18: every record the parser emits has its headline1, headline2 and
\* description from one and the same 'Ad N' block of the response.
C18_FieldsOfOneBlock ==
    pa_pc = "done" =>
        \A k \in 1..Len(pa_out) :
            \E b \in 0..BlockCount(pa_text) : pa_out[k] = BlockFields(pa_text, b)

(***************************************************************************)
(* Properties of WebScraper.scrape_url (checked under SpecScrape).         *)
(***************************************************************************)
ContentKeys ==
    {"success", "title", "meta_description", "summary", "headings", "body_text", "keywords"}

\* C12: scrape_url never raises to its caller; a call in which the fetch or
\* the extraction failed returns success False with a description of the
\* error and no content field, every other call returns success True with
\* title, meta_description, summary, headings, body_text and keywords.
C12_ScrapeNeverRaises ==
    /\ sc_pc # "raised"
    /\ sc_raised # None => sc_pc = "returned"
    /\ sc_pc = "returned" =>
           /\ sc_out # None
           /\ IF sc_raised # None
              THEN /\ DOMAIN sc_out[1] = {"success", "error"}
                   /\ ~sc_out[1].success
                   /\ Contains(sc_raised[1], sc_out[1].error)
              ELSE /\ DOMAIN sc_out[1] = ContentKeys
                   /\ sc_out[1].success

\* a call whose extraction raised has returned the failure
C12_Witness ==
    /\ sc_pc = "returned"
    /\ sc_gets = 1
    /\ sc_response # None
    /\ sc_response[1].status = 200
    /\ sc_raised = Some("ParserRejectedMarkup")
    /\ ~sc_out[1].success

\* C13: for a url validate_url rejects, scrape_url fails at once with an
\* invalid-url failure and sends no GET; no call sends more than one GET.
C13_InvalidUrlSendsNothing ==
    /\ sc_gets <= 1
    /\ (sc_pc \notin {"idle", "call"} /\ ~validate_url(sc_url)) =>
           /\ sc_gets = 0
           /\ sc_pc = "returned"
           /\ ~sc_out[1].success

\* the title scrape_url returns follows the order title element, first h1,
\* empty string
TitleByPriority(page) ==
    IF page.titles # <<>> /\ Strip(page.titles[1]) # ""
    THEN clean_text(page.titles[1], DEFAULT_MAX_LENGTH)
    ELSE LET h1s == SelectSeq(page.headings, LAMBDA h : h.tag = "h1")
         IN  IF h1s # <<>> /\ Strip(h1s[1].text) # ""
             THEN clean_text(h1s[1].text, DEFAULT_MAX_LENGTH)
             ELSE ""

\* C17: the extracted title is the cleaned text of the title element when
\* that is present and not blank, otherwise the cleaned text of the first h1
\* when that is present and not blank, otherwise the empty string; a page
\* with neither is processed without an error.
C17_TitlePriority ==
    (sc_pc = "returned" /\ sc_raised = None) =>
        sc_out[1].title = TitleByPriority(sc_response[1].page)

\* a page without a title element was processed and its first h1 became the
\* title although a later h1 and an earlier h2 exist
C17_Witness ==
    /\ sc_pc = "returned"
    /\ sc_raised = None
    /\ sc_response[1].page.titles = <<>>
    /\ sc_out[1].title = "Great Deals"

(***************************************************************************)
(* Properties of _generate_with_templates (checked under SpecTemplates).   *)
(***************************************************************************)
\* every triple random.choice can give for a keyword
AllCombinations(keyword) ==
    Range(headline_templates(keyword)) \X Range(secondary_headlines)
        \X Range(description_templates(keyword))

\* in a slot that goes on sampling, attempts counts the samples taken so far:
\* the next one is taken only when there were fewer than 20
C19_AttemptsBounded ==
    /\ attempts \in 0..(MAX_ATTEMPTS - 1)
    /\ pc = "Resampling" => attempts >= 1

\* different triples give different records, so that a repeated record is a
\* repeated triple
C19_RecordsTellTriplesApart ==
    (pc = "TemplateAttempt" /\ ads = <<>>) =>
        Cardinality({ TemplateAd(t_args.keyword, c) : c \in AllCombinations(t_args.keyword) })
            = Cardinality(AllCombinations(t_args.keyword))

\* the step that ends a slot appends a record equal to an earlier one only as
\* the twentieth sample of the slot, after nineteen samples of used triples
C19_SlotStep ==
    (Len(ads') = Len(ads) + 1 /\ ads'[Len(ads')] \in Range(ads)) =>
        /\ pc = "Resampling"
        /\ attempts = MAX_ATTEMPTS - 1
        /\ used_combinations' = used_combinations
        /\ combination' \in used_combinations

\* C19: each slot of a _generate_with_templates call samples at most 20
\* triples and the call returns whatever is drawn; a variant equal to one of
\* an earlier slot is returned only when all 20 samples of its slot were
\* triples already used.
C19_BoundedResampling ==
    /\ []C19_AttemptsBounded
    /\ []C19_RecordsTellTriplesApart
    /\ [][C19_SlotStep]_vars
    /\ <>(pc = "Done" /\ Len(result) = t_args.num_variants)

\* nineteen samples of the second slot were used triples and the twentieth is
\* about to be drawn
C19_Witness ==
    /\ pc = "Resampling"
    /\ attempts = MAX_ATTEMPTS - 1
    /\ Len(ads) >= 1
    /\ t_args.num_variants >= 2

(***************************************************************************)
(* The fallback of generate_ads to the templates (checked under Spec).     *)
(***************************************************************************)
\* C20: when generate_ads falls back from the generative path to the
\* templates, after an exception of the backend as after a parse that gave
\* too few records, the templates are called with the keyword of the caller
\* and headline1 of every returned variant holds that keyword.
C20_FallbackKeepsKeyword ==
    ("GenerativeAttempt" \in Range(path) /\ "TemplateAttempt" \in Range(path)) =>
        /\ t_args.keyword = args.keyword
        /\ pc = "Done" =>
               \A k \in 1..Len(result) :
                   Contains(Lower(args.keyword), Lower(result[k].headline1))

(***************************************************************************)
(* Two _generate_with_templates calls compared (checked under SpecTwin).   *)
(***************************************************************************)
Sampling(p, ad_list, a) ==
    \/ p = "Resampling"
    \/ p = "TemplateAttempt" /\ Len(ad_list) < a.num_variants

\* C21: the output of _generate_with_templates is a function of keyword,
\* num_variants and the random choices: two calls that differ in
\* content_summary and persona only and draw the same choices sample the
\* same number of times, build the same list and return the same variants.
C21_OutputIgnoresSummaryAndPersona ==
    /\ Sampling(pc, ads, t_args) <=> Sampling(tw_pc, tw_ads, tw_args)
    /\ Sampling(pc, ads, t_args) => (tw_pc = pc /\ tw_attempts = attempts)
    /\ tw_ads = ads
    /\ tw_used = used_combinations
    /\ pc = "Done" => result = tw_ads
    /\ tw_pc = "Done" => tw_result = ads
    /\ (pc = "Done" /\ tw_pc = "Done") => tw_result = result

\* both calls have returned two variants, the second after a slot of used
\* triples, and their content_summary and persona both differ
C21_Witness ==
    /\ pc = "Done"
    /\ tw_pc = "Done"
    /\ Len(result) >= 2
    /\ result[1] = result[2]
    /\ tw_args.content_summary # t_args.content_summary
    /\ tw_args.persona # t_args.persona
    /\ tw_result = result

====
